---- MODULE Spec2Model ----
(***************************************************************************)
(* Weather ETL pipeline: retry policy of the source client, the ETL cycle  *)
(* (fetch phase, persistence phase, archival phase) and the observation    *)
(* store.  One action per loop iteration / handler of the source.          *)
(***************************************************************************)
EXTENDS Integers, Sequences, FiniteSets, TLC

\* ------------------------------------------------------------------ bounds
MaxLocations == 2      \* longest LOCATIONS list explored
MaxRetriesBound == 2   \* largest MAX_RETRIES explored
MaxCycles == 2         \* run_pipeline calls explored
MaxTime == 1           \* last value of the logical clock
MaxDirectSaves == 1    \* save_weather_observation calls made outside a cycle
MaxLimit == 2          \* largest limit passed to get_latest_observations
MaxRows == 3           \* most rows of a store the read operations are applied to
MaxReads == 1          \* reads of the store made in one behaviour
MaxCalls == 3          \* start_scheduler and stop_scheduler calls made in one behaviour

\* ------------------------------------------------------------ basic values
\* Python's None and a present value: None is <<>>, the value v is <<v>>
None == <<>>
Some(v) == <<v>>
Val(x) == x[1]

\* an unset configuration string
Unset == "unset"

Colombo == <<"C","o","l","o","m","b","o",",","S","r","i"," ","L","a","n","k","a">>
Kandy == <<"K","a","n","d","y",",","S","r","i"," ","L","a","n","k","a">>
Blank == <<" ">>

LocationStrings == {Colombo, Kandy, Blank}

Whitespace == {" "}

\* str.strip(): drop leading and trailing whitespace
RECURSIVE LStrip(_)
LStrip(s) ==
    IF s = <<>> THEN <<>>
    ELSE IF Head(s) \in Whitespace THEN LStrip(Tail(s)) ELSE s

RECURSIVE RStrip(_)
RStrip(s) ==
    IF s = <<>> THEN <<>>
    ELSE IF s[Len(s)] \in Whitespace THEN RStrip(SubSeq(s, 1, Len(s) - 1)) ELSE s

Strip(s) == RStrip(LStrip(s))

\* sequences over S of length 0..n
SeqsUpTo(S, n) == UNION {[1..k -> S] : k \in 0..n}

\* ---------------------------------------------------------------- config
\* Config is read from the environment once; every value is an input.
RetryDelays == {0, 5}
Buckets == {Unset, "bucket"}

Configs ==
    [LOCATIONS : SeqsUpTo(LocationStrings, MaxLocations),
     MAX_RETRIES : 0..MaxRetriesBound,
     RETRY_DELAY_SECONDS : RetryDelays,
     PUSH_TO_S3 : BOOLEAN,
     S3_BUCKET : Buckets]

\* ------------------------------------------------------------- the source
\* Outcome of one fetch_weather_data + transform_weather_data call:
\*   ok          the request and the decoding succeed, the payload is a dict
\*   unavailable requests.exceptions.RequestException (network, timeout, HTTP status)
\*   malformed   json.JSONDecodeError on response.json()
\*   unexpected  any other exception (e.g. a payload that is not a dict)
FetchOutcomes == {"ok", "unavailable", "malformed", "unexpected"}

\* A value of the decoded JSON payload: a key that is missing, null, an
\* object (f gives the value of each key it has: None for null, Some(v)
\* otherwise) or a list of objects.
Missing == [kind |-> "missing"]
JsonNull == [kind |-> "null"]
Object(f) == [kind |-> "object", f |-> f]
List(items) == [kind |-> "list", items |-> items]
EmptyDict == Object(<<>>)

\* the nested objects of a complete answer of the provider; temperatures are
\* counted in hundredths of a kelvin
FullMain == Object([k \in {"temp", "feels_like", "humidity", "pressure"} |->
                       IF k = "temp" THEN Some(30015)
                       ELSE IF k = "feels_like" THEN Some(30100)
                       ELSE IF k = "humidity" THEN Some(80) ELSE Some(1010)])
FullWind == Object([k \in {"speed", "deg"} |-> IF k = "speed" THEN Some(5) ELSE Some(180)])
FullCoord == Object([k \in {"lat", "lon"} |-> IF k = "lat" THEN Some(7) ELSE Some(80)])
FullWeather == List(<<Object([k \in {"main", "description"} |->
                                 IF k = "main" THEN Some("Rain") ELSE Some("light rain")])>>)

\* raw payloads: the "dt" field is present or absent
FullPayload == [dt |-> Some(0), main |-> FullMain, wind |-> FullWind,
                coord |-> FullCoord, weather |-> FullWeather]
Payloads == {FullPayload, [FullPayload EXCEPT !.dt = None]}

\* fetch_weather_data: both except clauses raise WeatherAPIError
RaisesWeatherAPIError(outcome) == outcome \in {"unavailable", "malformed"}

\* 273.15 in hundredths
KelvinOffset == 27315

\* raw_data.get(key, {}): the default stands in for a missing key only
GetOrEmpty(v) == IF v.kind = "missing" THEN EmptyDict ELSE v

\* d.get(key) on a dict: None for a key the dict does not have
Get(d, key) == IF key \in DOMAIN d.f THEN d.f[key] ELSE None

\* d.get(key) on anything but a dict raises AttributeError
GetRaises(d) == d.kind # "object"

\* truth value of raw_data.get("weather"): None and the empty list are false
Truthy(v) == v.kind = "list" /\ v.items # <<>>

\* variant: the first element is taken without the `or [{}]`
FirstWeather_NoDefault(v) == IF v.kind = "list" /\ v.items # <<>> THEN v.items[1] ELSE JsonNull

\* (raw_data.get("weather") or [{}])[0]
FirstWeather(v) == IF Truthy(v) THEN v.items[1] ELSE EmptyDict

\* variant: a Kelvin value of 0 counts as absent (`if temp_k`)
ToCelsius_Truthy(kelvin) ==
    IF kelvin # None /\ Val(kelvin) # 0 THEN Some(Val(kelvin) - KelvinOffset) ELSE None

\* k - 273.15 if k is not None else None
ToCelsius(kelvin) == IF kelvin # None THEN Some(Val(kelvin) - KelvinOffset) ELSE None

\* transform_weather_data raises: a .get on a value that is not a dict
TransformRaises(raw_data) ==
    \/ GetRaises(GetOrEmpty(raw_data.main))
    \/ GetRaises(GetOrEmpty(raw_data.wind))
    \/ GetRaises(FirstWeather(raw_data.weather))
    \/ GetRaises(GetOrEmpty(raw_data.coord))

\* transform_weather_data: observed time from dt or the clock, fetch time
\* from the clock, the other fields from the nested objects
transform_weather_data(location, raw_data, clock) ==
    LET main == GetOrEmpty(raw_data.main)
        wind == GetOrEmpty(raw_data.wind)
        weather == FirstWeather(raw_data.weather)
        coord == GetOrEmpty(raw_data.coord)
    IN [location |-> Some(location),
        lat |-> Get(coord, "lat"),
        lon |-> Get(coord, "lon"),
        timestamp_utc |-> IF raw_data.dt # None THEN raw_data.dt ELSE Some(clock),
        temp_c |-> ToCelsius(Get(main, "temp")),
        temp_k |-> Get(main, "temp"),
        feels_like_c |-> ToCelsius(Get(main, "feels_like")),
        humidity |-> Get(main, "humidity"),
        pressure |-> Get(main, "pressure"),
        wind_speed |-> Get(wind, "speed"),
        wind_deg |-> Get(wind, "deg"),
        weather_main |-> Get(weather, "main"),
        weather_description |-> Get(weather, "description"),
        raw_json |-> Some(raw_data),
        fetched_at_utc |-> Some(clock)]

\* validate_weather_data: a pass-through
validate_weather_data(observation) == TRUE

\* api_client.validate_weather_data(observation) as fetch_and_transform_location
\* calls it on the client it was given: the client of the repository, or a
\* client whose validation hook may reject
ClientVerdicts(client, observation) ==
    IF client.validator = "WeatherAPIClient"
    THEN {validate_weather_data(observation)}
    ELSE BOOLEAN

\* variant: a rejected observation is handled like a failed fetch
AfterValidation_RetryInvalid(valid) ==
    IF valid THEN "return_observation" ELSE "retry"

\* variant: the loop goes on after a success
AfterValidation_KeepsLooping(valid) ==
    IF valid THEN "continue" ELSE "return_none"

\* fetch_and_transform_location after validation: `return observation`, or
\* the warning and `return None`
AfterValidation(valid) ==
    IF valid THEN "return_observation" ELSE "return_none"

\* variant: the body of the loop runs once before the bound is tested
InRange_AtLeastOnce(attempt, maxRetries) == attempt < maxRetries \/ attempt = 0

\* `for attempt in range(MAX_RETRIES)`: is there an iteration for `attempt`?
InRange(attempt, maxRetries) == attempt < maxRetries

\* variant: the handler sleeps and retries after the last attempt as well
RetryAfterFailure_OffByOne(attempt, maxRetries) == attempt < maxRetries

\* variant: the handler gives up after the first failure
RetryAfterFailure_Never(attempt, maxRetries) == FALSE

\* the handler of WeatherAPIError: retry while attempt < MAX_RETRIES - 1
RetryAfterFailure(attempt, maxRetries) == attempt < maxRetries - 1

\* variant: the loop over the locations stops at the first failed location
AfterLocation_BreakOnFailure(idx, observation, n) ==
    IF observation = None THEN n + 1 ELSE idx + 1

\* variant: a location that gave no observation is tried again
AfterLocation_RepeatFailed(idx, observation, n) ==
    IF observation = None THEN idx ELSE idx + 1

\* continuation of the for-loop of _process_locations after one location:
\* the next index, whatever fetch_and_transform_location returned
AfterLocation(idx, observation, n) == idx + 1

\* `if observation:` in _process_locations
KeepObservation(observation) == observation # None

\* variant: the new observation is put in front of the list
AddObservation_InFront(list, x) == <<x>> \o list

\* observations.append(observation)
AddObservation(list, x) == Append(list, x)

\* -------------------------------------------------------------- the store
\* variant: timestamp_utc is nullable
ConstraintsOK_LocationOnly(observation) == observation.location # None

\* NOT NULL columns of weather_observations that have no column default
ConstraintsOK(observation) ==
    /\ observation.location # None
    /\ observation.timestamp_utc # None

RECURSIVE MaxId(_)
MaxId(st) ==
    IF st = <<>> THEN 0
    ELSE LET m == MaxId(Tail(st)) IN IF Head(st).id > m THEN Head(st).id ELSE m

\* the row written for an observation: integer primary key, column default
\* for fetched_at_utc
NewRow(st, observation, clock) ==
    [id |-> MaxId(st) + 1,
     location |-> observation.location,
     timestamp_utc |-> observation.timestamp_utc,
     raw_json |-> observation.raw_json,
     fetched_at_utc |-> IF observation.fetched_at_utc # None
                        THEN observation.fetched_at_utc ELSE Some(clock)]

\* variant: the save replaces the row of the same location, if there is one
InsertRow_Upsert(st, observation, clock) ==
    IF \E i \in 1..Len(st) : st[i].location = observation.location
    THEN LET i == CHOOSE j \in 1..Len(st) : st[j].location = observation.location
         IN [st EXCEPT ![i] = [NewRow(st, observation, clock) EXCEPT !.id = st[i].id]]
    ELSE Append(st, NewRow(st, observation, clock))

\* session.add + session.commit: the INSERT is applied as a whole
InsertRow(st, observation, clock) == Append(st, NewRow(st, observation, clock))

\* I/O behaviour of the database during one save:
\*   ok             commit succeeds unless a constraint is violated
\*   commit_fails   commit raises, rollback succeeds
\*   rollback_fails commit raises and session.rollback() raises as well
SaveIO == {"ok", "commit_fails", "rollback_fails"}

\* save_weather_observation: the store afterwards and what the caller sees
save_weather_observation(st, observation, clock, io) ==
    IF io = "ok" /\ ConstraintsOK(observation)
    THEN [store |-> InsertRow(st, observation, clock), ret |-> "True"]
    ELSE IF io = "rollback_fails"
         THEN [store |-> st, ret |-> "raise"]
         ELSE [store |-> st, ret |-> "False"]

\* variant: every save call is counted
SavedCountAfter_CountsAll(saved_count, ret) == saved_count + 1

\* _save_observations: saved_count after one save call
SavedCountAfter(saved_count, ret) ==
    IF ret = "True" THEN saved_count + 1 ELSE saved_count

\* variant: the loop has no try/except
SaveEscapes_Uncaught(ret) == ret = "raise"

\* _save_observations: does an exception of the save leave the loop?
\* (except Exception ... continue)
SaveEscapes(ret) == FALSE

\* variant: a failed put_object is not caught
PushEscapes_Uncaught(outcome) == TRUE

\* _push_to_s3: does a failed put_object leave the loop? (except ... continue)
PushEscapes(outcome) == FALSE

\* run_etl: `if Config.PUSH_TO_S3 and Config.S3_BUCKET`
ArchivalEnabled(cfg) == cfg.PUSH_TO_S3 /\ cfg.S3_BUCKET # Unset

\* variant: only the observations whose save returned True are handed over
ObservationsToPush_SavedOnly(obs, log) ==
    SelectSeq([k \in 1..Len(obs) |-> k], LAMBDA k : log[k].ret = "True")

\* run_etl hands the whole list `observations` to _push_to_s3: the indexes
\* of the observations it loops over, whatever their save returned
ObservationsToPush(obs, log) == [k \in 1..Len(obs) |-> k]

\* state of the archival client at the start of _push_to_s3
S3Setup == {"ok", "no_boto3", "client_fails"}
PushOutcomes == {"ok", "fails"}

Min(a, b) == IF a <= b THEN a ELSE b

\* variant: the rows come oldest first
OrderByFetchedAtDesc_Ascending(st) ==
    {p \in [1..Len(st) -> 1..Len(st)] :
        /\ \A i, j \in 1..Len(st) : i # j => p[i] # p[j]
        /\ \A i, j \in 1..Len(st) :
              i < j => Val(st[p[i]].fetched_at_utc) <= Val(st[p[j]].fetched_at_utc)}

\* ORDER BY fetched_at_utc DESC: the orders of the row indexes the database
\* may produce; rows with the same fetched_at_utc come in any order
OrderByFetchedAtDesc(st) ==
    {p \in [1..Len(st) -> 1..Len(st)] :
        /\ \A i, j \in 1..Len(st) : i # j => p[i] # p[j]
        /\ \A i, j \in 1..Len(st) :
              i < j => Val(st[p[i]].fetched_at_utc) >= Val(st[p[j]].fetched_at_utc)}

\* variant: the limit is one row short
get_latest_observations_OneShort(st, limit, p) ==
    [k \in 1..Min(IF limit > 0 THEN limit - 1 ELSE 0, Len(st)) |-> st[p[k]]]

\* get_latest_observations: the first `limit` rows of one such order
get_latest_observations(st, limit, p) ==
    [k \in 1..Min(limit, Len(st)) |-> st[p[k]]]

\* observations handed to save_weather_observation outside a cycle
DirectObservations ==
    {[location |-> l, timestamp_utc |-> t, raw_json |-> None, fetched_at_utc |-> f] :
        l \in {Some(Colombo), None}, t \in {Some(0), None}, f \in {Some(0), None}}

\* ------------------------------------------------------- reading the store
\* Times are counted in ticks of the clock; the clock is finer than a second.
TicksPerSecond == 2
SecondsPerMinute == 60
Hour == 60 * SecondsPerMinute * TicksPerSecond

\* a DateTime column as the text SQLite holds, 'YYYY-MM-DD HH:MM:SS.ffffff':
\* the whole seconds and the fraction
StorageFormat(t) == [sec |-> t \div TicksPerSecond, frac |-> Some(t % TicksPerSecond)]

\* datetime('now', '-N minutes') is the text 'YYYY-MM-DD HH:MM:SS': the clock
\* cut to whole seconds, N minutes back, without a fraction
SqliteDatetime(clock, minutes) ==
    [sec |-> (clock \div TicksPerSecond) - minutes * SecondsPerMinute, frac |-> None]

\* `<` on the two texts: the text without a fraction is a proper prefix of
\* every text with the same seconds, so it is smaller
TextLess(a, b) ==
    \/ a.sec < b.sec
    \/ /\ a.sec = b.sec
       /\ \/ a.frac = None /\ b.frac # None
          \/ a.frac # None /\ b.frac # None /\ Val(a.frac) < Val(b.frac)

\* a second location whose name starts like Colombo's
ColomboUS == <<"C","o","l","o","m","b","o",",","U","S">>

\* the terms a lookup is made with
TermColombo == <<"C","o","l","o","m","b","o">>
TermKandy == <<"K","a","n","d","y">>
TermAnuradhapura == <<"A","n","u","r","a","d","h","a","p","u","r","a">>
TermLower == <<"c","o","l","o","m","b","o">>
TermWildcard == <<"_","a">>
QueryTerms == {TermColombo, TermKandy, TermLower, TermWildcard}

Uppers == <<"A","B","C","D","E","F","G","H","I","J","K","L","M",
            "N","O","P","Q","R","S","T","U","V","W","X","Y","Z">>
Lowers == <<"a","b","c","d","e","f","g","h","i","j","k","l","m",
            "n","o","p","q","r","s","t","u","v","w","x","y","z">>

\* LIKE folds the case of the ASCII letters
Lower(c) ==
    IF \E i \in 1..Len(Uppers) : Uppers[i] = c
    THEN Lowers[CHOOSE i \in 1..Len(Uppers) : Uppers[i] = c]
    ELSE c

\* the LIKE operator of the database: % stands for any run of characters,
\* _ for any one character, letters match whatever their case
RECURSIVE Like(_, _)
Like(pattern, s) ==
    IF pattern = <<>> THEN s = <<>>
    ELSE IF Head(pattern) = "%"
         THEN \E k \in 0..Len(s) : Like(Tail(pattern), SubSeq(s, k + 1, Len(s)))
    ELSE IF s = <<>> THEN FALSE
    ELSE IF Head(pattern) = "_" THEN Like(Tail(pattern), Tail(s))
    ELSE Lower(Head(pattern)) = Lower(Head(s)) /\ Like(Tail(pattern), Tail(s))

\* WeatherObservation.location.like(f"{location}%")
LocationLike(location, stored) == Like(Append(location, "%"), stored)

\* the first element of a sequence of row indexes that is in keep, as
\* .first() returns it: a row, or None
FirstRow(st, order, keep) ==
    IF \E k \in 1..Len(order) : order[k] \in keep
    THEN LET k == CHOOSE j \in 1..Len(order) :
                      order[j] \in keep /\ \A h \in 1..(j - 1) : order[h] \notin keep
         IN Some(st[order[k]])
    ELSE None

\* variant: .first() without the order_by clause: the oldest matching row
get_weather_by_location_Unordered(st, location, p) ==
    FirstRow(st, [k \in 1..Len(st) |-> k],
             {i \in 1..Len(st) : LocationLike(location, Val(st[i].location))})

\* get_weather_by_location: filter(location LIKE 'term%'),
\* order_by(fetched_at_utc desc), first(); p is the order the database
\* produces
get_weather_by_location(st, location, p) ==
    FirstRow(st, p,
             {i \in 1..Len(st) : LocationLike(location, Val(st[i].location))})

\* get_latest_weather of the dashboard: the same lookup for each of the
\* three target locations, the rows found in the order of the targets
target_locations == <<TermKandy, TermColombo, TermAnuradhapura>>

RECURSIVE Flatten(_)
Flatten(opts) ==
    IF opts = <<>> THEN <<>> ELSE Head(opts) \o Flatten(Tail(opts))

get_latest_weather(st, p) ==
    Flatten([k \in 1..Len(target_locations) |->
                get_weather_by_location(st, target_locations[k], p)])

\* the distinct stored locations: GROUP BY location
StoredLocations(st) == {Val(st[i].location) : i \in 1..Len(st)}

\* MAX(fetched_at_utc) of the rows of one location
MaxFetchedAt(st, location) ==
    LET rows == {i \in 1..Len(st) : Val(st[i].location) = location}
        i == CHOOSE j \in rows :
                 \A h \in rows : Val(st[h].fetched_at_utc) <= Val(st[j].fetched_at_utc)
    IN Val(st[i].fetched_at_utc)

\* HAVING MAX(fetched_at_utc) < datetime('now', '-N minutes')
IsStale(latest_fetch, clock, minutes) ==
    TextLess(StorageFormat(latest_fetch), SqliteDatetime(clock, minutes))

\* get_stale_locations: the groups that satisfy the HAVING clause, each with
\* its latest fetch time
get_stale_locations(st, minutes_threshold, clock) ==
    {[location |-> l, latest_fetch |-> MaxFetchedAt(st, l)] :
        l \in {m \in StoredLocations(st) : IsStale(MaxFetchedAt(st, m), clock, minutes_threshold)}}

\* monitor_data_freshness asks for 90 minutes
StaleMinutes == 90

\* the observations the stores that are read were saved from
StoredTimes == {0, 1, Hour, 2 * Hour}
StoredObservations ==
    {[location |-> Some(l), timestamp_utc |-> Some(0), raw_json |-> None,
      fetched_at_utc |-> Some(f)] : l \in {Colombo}, f \in StoredTimes}
    \cup
    {[location |-> Some(l), timestamp_utc |-> Some(0), raw_json |-> None,
      fetched_at_utc |-> Some(f)] : l \in {ColomboUS, Kandy}, f \in {0, Hour}}

\* the store after the observations of a sequence were saved one by one
RECURSIVE SavedStore(_)
SavedStore(obs) ==
    IF obs = <<>> THEN <<>>
    ELSE save_weather_observation(SavedStore(SubSeq(obs, 1, Len(obs) - 1)),
                                  obs[Len(obs)], 0, "ok").store

\* the clock values at which the store is read: around 90 minutes after the
\* first stored times
QueryClocks == {StaleMinutes * SecondsPerMinute * TicksPerSecond + d : d \in 1..2}

NoCall == [op |-> "none", location |-> <<>>, limit |-> 0]

\* ------------------------------------------------------------------ state
VARIABLES
    config,        \* Config, fixed after start-up
    now,           \* logical clock
    store,         \* rows of weather_observations, in insertion order
    pc,            \* position of the cycle: idle, process, fetch, save, push_init, push, finish
    locIdx,        \* index into Config.LOCATIONS in _process_locations
    attempt,       \* loop variable of fetch_and_transform_location
    observations,  \* list built by _process_locations
    obsLoc,        \* for each element of observations, the index of its location
    saveIdx,       \* position of the loop of _save_observations
    saved_count,   \* saved_count of _save_observations
    pushIdx,       \* position of the loop of _push_to_s3
    result,        \* what the last run_pipeline call produced
    source,        \* the weather provider: per location string, the outcomes and
                   \* the payloads it can give
    cyclesLeft,    \* run_pipeline calls still to be made
    directSaves,   \* number of saves made outside a cycle
    lastLoc,       \* index of the location of the current or last
                   \* fetch_and_transform_location call of this cycle, 0 if none
    attempts,      \* per location index: fetch_weather_data calls in this cycle
    waits,         \* the time.sleep durations of the current fetch_and_transform_location call
    outcomes,      \* the fetch outcomes of the current fetch_and_transform_location call
    returned,      \* per location index: what fetch_and_transform_location returned
    saveLog,       \* the save calls of this cycle: index of the observation, return
    pushLog,       \* the put_object calls of this cycle: index of the observation, outcome
    s3state,       \* how _push_to_s3 started in this cycle
    storeAtStart,  \* the store when the cycle started
    lastSave,      \* the last save_weather_observation call: store before, after, return,
                   \* the observation it was given
    queryResult,   \* the rows the last read of the store returned
    queryCall,     \* the last read of the store: operation, term, limit
    staleResult,   \* what the last get_stale_locations call returned
    readsLeft,     \* reads of the store still to be made
    schedule_available, \* SCHEDULE_AVAILABLE: the schedule library could be imported
    interval_env,  \* the text of SCHEDULE_INTERVAL_HOURS in the environment
    interval_hours, \* WeatherScheduler.interval_hours; None when Config could not be loaded
    running,       \* WeatherScheduler._running
    jobs,          \* the jobs registered with the schedule library
    threads,       \* the background threads started so far
    thread,        \* WeatherScheduler._thread: index into threads, 0 for None
    caller,        \* position of the thread that calls start_scheduler and stop_scheduler
    calls,         \* start_scheduler and stop_scheduler calls made so far
    lastCall       \* the last start_scheduler or stop_scheduler call and how it ended

vars == <<config, now, store, pc, locIdx, attempt, observations, obsLoc, saveIdx,
          saved_count, pushIdx, result, source, cyclesLeft, directSaves, lastLoc, attempts,
          waits, outcomes, returned, saveLog, pushLog, s3state, storeAtStart, lastSave,
          queryResult, queryCall, staleResult, readsLeft, schedule_available, interval_env,
          interval_hours, running, jobs, threads, thread, caller, calls, lastCall>>

cycleVars == <<locIdx, attempt, observations, obsLoc, saveIdx, saved_count, pushIdx>>
histVars == <<lastLoc, attempts, waits, outcomes, returned, saveLog, pushLog, s3state, storeAtStart>>
queryVars == <<queryResult, queryCall, staleResult, readsLeft>>
schedVars == <<schedule_available, interval_env, interval_hours, running, jobs, threads,
               thread, caller, calls, lastCall>>

NLoc == Len(config.LOCATIONS)

NoSave == [pre |-> <<>>, post |-> <<>>, ret |-> "none", obs |-> None]

\* a provider that may answer every request in every way, with payloads from P
AnySource(P) ==
    [l \in LocationStrings |->
        [outcomes |-> FetchOutcomes, payloads |-> P, validator |-> "WeatherAPIClient"]]

NoSchedulerCall == [op |-> "none", outcome |-> "none"]

\* no scheduler has been constructed: WeatherScheduler.__init__ with the
\* default interval
SchedulerDefault ==
    /\ schedule_available = TRUE
    /\ interval_env = <<"1">>
    /\ interval_hours = Some(1)
    /\ running = FALSE
    /\ jobs = <<>>
    /\ threads = <<>>
    /\ thread = 0
    /\ caller = "idle"
    /\ calls = 0
    /\ lastCall = NoSchedulerCall

\* no cycle has run and nothing has been read
InitRest ==
    /\ queryResult = <<>>
    /\ queryCall = NoCall
    /\ staleResult = {}
    /\ readsLeft = MaxReads
    /\ pc = "idle"
    /\ locIdx = 1
    /\ attempt = 0
    /\ observations = <<>>
    /\ obsLoc = <<>>
    /\ saveIdx = 1
    /\ saved_count = 0
    /\ pushIdx = 1
    /\ result = "none"
    /\ directSaves = 0
    /\ lastLoc = 0
    /\ attempts = [i \in 1..NLoc |-> 0]
    /\ waits = <<>>
    /\ outcomes = <<>>
    /\ returned = [i \in 1..NLoc |-> "pending"]
    /\ saveLog = <<>>
    /\ pushLog = <<>>
    /\ s3state = "none"
    /\ storeAtStart = <<>>
    /\ lastSave = NoSave

InitState ==
    /\ now = 0
    /\ store = <<>>
    /\ SchedulerDefault
    /\ InitRest

\* configurations of the store scenarios: the default delay, a bucket name
StoreConfigs ==
    {c \in Configs : /\ c.MAX_RETRIES <= 1
                     /\ c.RETRY_DELAY_SECONDS = 5
                     /\ c.S3_BUCKET = "bucket"
                     /\ c.LOCATIONS = <<Colombo, Blank>>}

\* cycles, direct saves and the clock, any provider
Init ==
    /\ config \in StoreConfigs
    /\ source = AnySource(Payloads)
    /\ cyclesLeft = MaxCycles
    /\ InitState

\* one cycle, any configuration, any provider
InitCycle ==
    /\ config \in Configs
    /\ source = AnySource({FullPayload})
    /\ cyclesLeft = 1
    /\ InitState

\* the clock advances
Tick ==
    /\ now < MaxTime
    /\ now' = now + 1
    /\ UNCHANGED <<config, store, pc, cycleVars, result, source, cyclesLeft, directSaves,
                   histVars, lastSave, queryVars, schedVars>>

\* ------------------------------------------------------------ run_pipeline
\* run_pipeline: WeatherETLPipeline() succeeds and run_etl starts
RunPipeline ==
    /\ pc = "idle"
    /\ cyclesLeft > 0
    /\ pc' = "process"
    /\ locIdx' = 1
    /\ attempt' = 0
    /\ observations' = <<>>
    /\ obsLoc' = <<>>
    /\ saveIdx' = 1
    /\ saved_count' = 0
    /\ pushIdx' = 1
    /\ result' = "running"
    /\ cyclesLeft' = cyclesLeft - 1
    /\ lastLoc' = 0
    /\ attempts' = [i \in 1..NLoc |-> 0]
    /\ waits' = <<>>
    /\ outcomes' = <<>>
    /\ returned' = [i \in 1..NLoc |-> "pending"]
    /\ saveLog' = <<>>
    /\ pushLog' = <<>>
    /\ s3state' = "none"
    /\ storeAtStart' = store
    /\ UNCHANGED <<config, now, store, source, directSaves, lastSave, queryVars, schedVars>>

\* run_pipeline: the constructor (DatabaseManager, create_all) raises, outside
\* the try of run_etl
RunPipelineFails ==
    /\ pc = "idle"
    /\ cyclesLeft > 0
    /\ result' = "raised"
    /\ cyclesLeft' = cyclesLeft - 1
    /\ UNCHANGED <<config, now, store, pc, cycleVars, source, directSaves, histVars,
                   lastSave, queryVars, schedVars>>

\* -------------------------------------------------------- _process_locations
\* a blank location is skipped
SkipBlankLocation ==
    /\ pc = "process"
    /\ locIdx <= NLoc
    /\ Strip(config.LOCATIONS[locIdx]) = <<>>
    /\ returned' = [returned EXCEPT ![locIdx] = "skipped"]
    /\ locIdx' = locIdx + 1
    /\ UNCHANGED <<config, now, store, pc, attempt, observations, obsLoc, saveIdx,
                   saved_count, pushIdx, result, source, cyclesLeft, directSaves, lastLoc, attempts, waits,
                   outcomes, saveLog, pushLog, s3state, storeAtStart, lastSave, queryVars, schedVars>>

\* fetch_and_transform_location is called for the next location
BeginLocation ==
    /\ pc = "process"
    /\ locIdx <= NLoc
    /\ Strip(config.LOCATIONS[locIdx]) # <<>>
    /\ pc' = "fetch"
    /\ attempt' = 0
    /\ lastLoc' = locIdx
    /\ waits' = <<>>
    /\ outcomes' = <<>>
    /\ UNCHANGED <<config, now, store, locIdx, observations, obsLoc, saveIdx,
                   saved_count, pushIdx, result, source, cyclesLeft, directSaves,
                   attempts, returned, saveLog, pushLog, s3state, storeAtStart, lastSave, queryVars, schedVars>>

\* fetch_and_transform_location returns `observation` (None or Some(obs)) to
\* _process_locations, which appends it if present and goes on
ReturnToProcess(observation) ==
    /\ returned' = [returned EXCEPT ![locIdx] =
                        IF observation = None THEN "none" ELSE "observation"]
    /\ observations' = IF KeepObservation(observation)
                        THEN AddObservation(observations, Val(observation))
                        ELSE observations
    /\ obsLoc' = IF KeepObservation(observation)
                  THEN AddObservation(obsLoc, locIdx) ELSE obsLoc
    /\ locIdx' = AfterLocation(locIdx, observation, NLoc)
    /\ pc' = "process"

\* range(MAX_RETRIES) is exhausted: `return None` after the loop
RetriesExhausted ==
    /\ pc = "fetch"
    /\ ~InRange(attempt, config.MAX_RETRIES)
    /\ ReturnToProcess(None)
    /\ UNCHANGED <<config, now, store, attempt, saveIdx, saved_count, pushIdx, result,
                   source, cyclesLeft, directSaves, lastLoc, attempts, waits, outcomes, saveLog, pushLog,
                   s3state, storeAtStart, lastSave, queryVars, schedVars>>

\* `except WeatherAPIError`: sleep and go on with the next attempt, or give up
HandleWeatherAPIError ==
    IF RetryAfterFailure(attempt, config.MAX_RETRIES)
    THEN /\ waits' = Append(waits, config.RETRY_DELAY_SECONDS)
         /\ attempt' = attempt + 1
         /\ UNCHANGED <<pc, locIdx, observations, obsLoc, returned>>
    ELSE /\ ReturnToProcess(None)
         /\ UNCHANGED <<attempt, waits>>

\* one iteration of the loop of fetch_and_transform_location; outcomes gets
\* how the attempt went: the failure of the fetch, "unexpected" when the
\* transformation raised, "invalid" when the validation rejected, "ok"
FetchAttempt ==
    /\ pc = "fetch"
    /\ InRange(attempt, config.MAX_RETRIES)
    /\ \E outcome \in source[config.LOCATIONS[locIdx]].outcomes,
          raw_data \in source[config.LOCATIONS[locIdx]].payloads :
        LET location == Strip(config.LOCATIONS[locIdx])
            client == source[config.LOCATIONS[locIdx]]
        IN
        /\ attempts' = [attempts EXCEPT ![locIdx] = @ + 1]
        /\ IF outcome = "ok" /\ ~TransformRaises(raw_data)
           THEN LET observation == transform_weather_data(location, raw_data, now) IN
                \E valid \in ClientVerdicts(client, observation) :
                    LET next == AfterValidation(valid) IN
                    /\ outcomes' = Append(outcomes, IF valid THEN "ok" ELSE "invalid")
                    /\ CASE next = "return_observation" ->
                               /\ ReturnToProcess(Some(observation))
                               /\ UNCHANGED <<attempt, waits>>
                         [] next = "return_none" ->
                               /\ ReturnToProcess(None)
                               /\ UNCHANGED <<attempt, waits>>
                         [] next = "retry" -> HandleWeatherAPIError
                         [] next = "continue" ->
                               /\ attempt' = attempt + 1
                               /\ UNCHANGED <<waits, pc, locIdx, observations, obsLoc,
                                              returned>>
           ELSE /\ outcomes' = Append(outcomes, IF outcome = "ok" THEN "unexpected"
                                                ELSE outcome)
                /\ IF RaisesWeatherAPIError(outcome)
                   THEN HandleWeatherAPIError
                   ELSE /\ ReturnToProcess(None)
                        /\ UNCHANGED <<attempt, waits>>
    /\ UNCHANGED <<config, now, store, saveIdx, saved_count, pushIdx, result, source,
                   cyclesLeft, directSaves, lastLoc, saveLog, pushLog, s3state,
                   storeAtStart, lastSave, queryVars, schedVars>>

\* the loop over LOCATIONS ends; _save_observations starts
EndProcessLocations ==
    /\ pc = "process"
    /\ locIdx > NLoc
    /\ pc' = "save"
    /\ saveIdx' = 1
    /\ saved_count' = 0
    /\ UNCHANGED <<config, now, store, locIdx, attempt, observations, obsLoc, pushIdx,
                   result, source, cyclesLeft, directSaves, histVars, lastSave, queryVars, schedVars>>

\* run_etl: an exception reaches `except Exception`: run_etl returns False
AbortCycle ==
    /\ pc' = "idle"
    /\ result' = "False"

\* -------------------------------------------------------- _save_observations
\* one iteration of the loop of _save_observations
SaveObservation ==
    /\ pc = "save"
    /\ saveIdx <= Len(observations)
    /\ \E io \in SaveIO :
        LET r == save_weather_observation(store, observations[saveIdx], now, io) IN
        /\ store' = r.store
        /\ lastSave' = [pre |-> store, post |-> r.store, ret |-> r.ret,
                        obs |-> Some(observations[saveIdx])]
        /\ saveLog' = Append(saveLog, [obs |-> saveIdx, ret |-> r.ret])
        /\ saved_count' = SavedCountAfter(saved_count, r.ret)
        /\ IF SaveEscapes(r.ret)
           THEN AbortCycle /\ UNCHANGED saveIdx
           ELSE saveIdx' = saveIdx + 1 /\ UNCHANGED <<pc, result>>
    /\ UNCHANGED <<config, now, locIdx, attempt, observations, obsLoc, pushIdx, source, cyclesLeft,
                   directSaves, lastLoc, attempts, waits, outcomes, returned, pushLog, s3state,
                   storeAtStart, queryVars, schedVars>>

\* _save_observations returns; run_etl decides about archival
EndSaveObservations ==
    /\ pc = "save"
    /\ saveIdx > Len(observations)
    /\ pc' = IF ArchivalEnabled(config) THEN "push_init" ELSE "finish"
    /\ UNCHANGED <<config, now, store, cycleVars, result, source, cyclesLeft, directSaves,
                   histVars, lastSave, queryVars, schedVars>>

\* ----------------------------------------------------------------- _push_to_s3
\* the start of _push_to_s3: bucket check, import of boto3, boto3.client
BeginPush ==
    /\ pc = "push_init"
    /\ \E setup \in S3Setup :
        /\ s3state' = IF config.S3_BUCKET = Unset THEN "no_bucket" ELSE setup
        /\ pc' = IF config.S3_BUCKET # Unset /\ setup = "ok" THEN "push" ELSE "finish"
    /\ pushIdx' = 1
    /\ UNCHANGED <<config, now, store, locIdx, attempt, observations, obsLoc, saveIdx,
                   saved_count, result, source, cyclesLeft, directSaves, lastLoc, attempts, waits, outcomes,
                   returned, saveLog, pushLog, storeAtStart, lastSave, queryVars, schedVars>>

\* one iteration of the loop of _push_to_s3: building the key or put_object
\* may raise (also DetachedInstanceError on an expired attribute); every
\* exception is caught inside the loop
PushObservation ==
    /\ pc = "push"
    /\ pushIdx <= Len(ObservationsToPush(observations, saveLog))
    /\ \E outcome \in PushOutcomes :
        /\ pushLog' = Append(pushLog, [obs |-> ObservationsToPush(observations, saveLog)[pushIdx],
                                       outcome |-> outcome])
        /\ IF outcome # "ok" /\ PushEscapes(outcome)
           THEN AbortCycle /\ UNCHANGED pushIdx
           ELSE pushIdx' = pushIdx + 1 /\ UNCHANGED <<pc, result>>
    /\ UNCHANGED <<config, now, store, locIdx, attempt, observations, obsLoc, saveIdx,
                   saved_count, source, cyclesLeft, directSaves, lastLoc, attempts, waits, outcomes, returned,
                   saveLog, s3state, storeAtStart, lastSave, queryVars, schedVars>>

\* the loop of _push_to_s3 ends
EndPush ==
    /\ pc = "push"
    /\ pushIdx > Len(ObservationsToPush(observations, saveLog))
    /\ pc' = "finish"
    /\ UNCHANGED <<config, now, store, cycleVars, result, source, cyclesLeft, directSaves,
                   histVars, lastSave, queryVars, schedVars>>

\* run_etl logs the summary and returns True
Finish ==
    /\ pc = "finish"
    /\ pc' = "idle"
    /\ result' = "True"
    /\ UNCHANGED <<config, now, store, cycleVars, source, cyclesLeft, directSaves, histVars, lastSave, queryVars, schedVars>>

\* ------------------------------------------------- the store, outside a cycle
\* save_weather_observation called directly
DirectSave ==
    /\ pc = "idle"
    /\ directSaves < MaxDirectSaves
    /\ \E observation \in DirectObservations, io \in SaveIO :
        LET r == save_weather_observation(store, observation, now, io) IN
        /\ store' = r.store
        /\ lastSave' = [pre |-> store, post |-> r.store, ret |-> r.ret,
                        obs |-> Some(observation)]
    /\ directSaves' = directSaves + 1
    /\ UNCHANGED <<config, now, pc, cycleVars, result, source, cyclesLeft, histVars,
                   queryVars, schedVars>>

\* the steps of run_pipeline
NextCycle ==
    \/ RunPipeline
    \/ RunPipelineFails
    \/ SkipBlankLocation
    \/ BeginLocation
    \/ RetriesExhausted
    \/ FetchAttempt
    \/ EndProcessLocations
    \/ SaveObservation
    \/ EndSaveObservations
    \/ BeginPush
    \/ PushObservation
    \/ EndPush
    \/ Finish

\* get_latest_observations called between cycles (health check): a read
GetLatestObservations ==
    /\ pc = "idle"
    /\ readsLeft > 0
    /\ readsLeft' = readsLeft - 1
    /\ \E limit \in 0..MaxLimit, p \in OrderByFetchedAtDesc(store) :
        /\ queryResult' = get_latest_observations(store, limit, p)
        /\ queryCall' = [op |-> "recent", location |-> <<>>, limit |-> limit]
    /\ UNCHANGED <<config, now, store, pc, cycleVars, result, source, cyclesLeft,
                   directSaves, histVars, lastSave, staleResult, schedVars>>

\* get_weather_by_location: a read
GetWeatherByLocation ==
    /\ pc = "idle"
    /\ readsLeft > 0
    /\ readsLeft' = readsLeft - 1
    /\ \E location \in QueryTerms, p \in OrderByFetchedAtDesc(store) :
        /\ queryResult' = get_weather_by_location(store, location, p)
        /\ queryCall' = [op |-> "by_location", location |-> location, limit |-> 0]
    /\ UNCHANGED <<config, now, store, pc, cycleVars, result, source, cyclesLeft,
                   directSaves, histVars, lastSave, staleResult, schedVars>>

\* get_latest_weather of the dashboard: a read; its three queries differ in
\* the term only and get the same order from the database
GetLatestWeather ==
    /\ pc = "idle"
    /\ readsLeft > 0
    /\ readsLeft' = readsLeft - 1
    /\ \E p \in OrderByFetchedAtDesc(store) :
        /\ queryResult' = get_latest_weather(store, p)
        /\ queryCall' = [op |-> "latest", location |-> <<>>, limit |-> 0]
    /\ UNCHANGED <<config, now, store, pc, cycleVars, result, source, cyclesLeft,
                   directSaves, histVars, lastSave, staleResult, schedVars>>

\* monitor_data_freshness: get_stale_locations(90), a read
GetStaleLocations ==
    /\ pc = "idle"
    /\ readsLeft > 0
    /\ readsLeft' = readsLeft - 1
    /\ staleResult' = get_stale_locations(store, StaleMinutes, now)
    /\ queryCall' = [op |-> "stale", location |-> <<>>, limit |-> StaleMinutes]
    /\ UNCHANGED <<config, now, store, pc, cycleVars, result, source, cyclesLeft,
                   directSaves, histVars, lastSave, queryResult, schedVars>>

Next ==
    \/ NextCycle
    \/ Tick
    \/ DirectSave
    \/ GetLatestObservations

Spec == Init /\ [][Next]_vars

\* the end-to-end scenario: two locations, MAX_RETRIES = 2, no delay; the
\* provider always answers for Colombo and is always unavailable for Kandy
ScenarioConfigs ==
    {c \in Configs : /\ c.LOCATIONS = <<Colombo, Kandy>>
                     /\ c.MAX_RETRIES = 2
                     /\ c.RETRY_DELAY_SECONDS = 0}

ScenarioSource ==
    [l \in LocationStrings |->
        [outcomes |-> IF l = Colombo THEN {"ok"} ELSE {"unavailable"},
         payloads |-> {FullPayload}, validator |-> "WeatherAPIClient"]]

InitScenario ==
    /\ config \in ScenarioConfigs
    /\ source = ScenarioSource
    /\ cyclesLeft = 1
    /\ InitState

NextScenario ==
    \/ RunPipeline
    \/ BeginLocation
    \/ FetchAttempt
    \/ EndProcessLocations
    \/ SaveObservation
    \/ EndSaveObservations
    \/ BeginPush
    \/ PushObservation
    \/ EndPush
    \/ Finish
    \/ Tick

SpecScenario == InitScenario /\ [][NextScenario]_vars

SpecCycle == InitCycle /\ [][NextCycle]_vars

\* run_pipeline runs in one thread that is never suspended for good; every
\* fetch and every save returns or fails in bounded time (request timeout)
\* one cycle, every location list and MAX_RETRIES, the default delay, a
\* bucket name
InitCycleFair ==
    /\ config \in {c \in Configs : c.RETRY_DELAY_SECONDS = 5 /\ c.S3_BUCKET = "bucket"}
    /\ source = AnySource({FullPayload})
    /\ cyclesLeft = 1
    /\ InitState

SpecCycleFair == InitCycleFair /\ [][NextCycle]_vars /\ WF_vars(NextCycle)

\* a client whose validation hook may reject an observation
HookSource ==
    [l \in LocationStrings |->
        [outcomes |-> FetchOutcomes, payloads |-> {FullPayload}, validator |-> "hook"]]

\* MAX_RETRIES = int(os.getenv("MAX_RETRIES", "3")): any integer, a negative
\* one included
ClientConfigs ==
    [LOCATIONS : SeqsUpTo(LocationStrings, MaxLocations),
     MAX_RETRIES : {-1} \cup (0..MaxRetriesBound),
     RETRY_DELAY_SECONDS : {5},
     PUSH_TO_S3 : BOOLEAN,
     S3_BUCKET : {"bucket"}]

\* one cycle with a client whose validation may reject, any MAX_RETRIES
InitClient ==
    /\ config \in ClientConfigs
    /\ source = HookSource
    /\ cyclesLeft = 1
    /\ InitState

SpecClient == InitClient /\ [][NextCycle]_vars

\* payloads of the provider with nested objects missing, null, empty or
\* partly filled; a Kelvin value may be 0
MainObject(temp, feels_like) ==
    Object([k \in {"temp", "feels_like", "humidity", "pressure"} |->
               IF k = "temp" THEN temp
               ELSE IF k = "feels_like" THEN feels_like
               ELSE IF k = "humidity" THEN Some(80) ELSE None])

TransformPayloads ==
    [dt : {Some(0), None},
     main : {Missing, JsonNull, EmptyDict}
            \cup {MainObject(t, f) : t \in {None, Some(0), Some(30015)},
                                     f \in {None, Some(0)}},
     wind : {Missing, FullWind, Object([k \in {"speed"} |-> Some(5)])},
     coord : {Missing, FullCoord},
     weather : {Missing, JsonNull, List(<<>>), FullWeather}]

\* a provider that answers every request with the payload raw_data
AnswersWith(raw_data) ==
    [l \in LocationStrings |->
        [outcomes |-> {"ok"}, payloads |-> {raw_data}, validator |-> "WeatherAPIClient"]]

\* one cycle over a provider that answers with one payload of TransformPayloads
InitTransform ==
    /\ config \in StoreConfigs
    /\ source \in {AnswersWith(raw_data) : raw_data \in TransformPayloads}
    /\ cyclesLeft = 1
    /\ InitState

SpecTransform == InitTransform /\ [][NextCycle]_vars

\* the read operations applied to every store of at most MaxRows rows saved
\* from StoredObservations, at every clock value of QueryClocks
InitQuery ==
    /\ config \in {c \in StoreConfigs : c.MAX_RETRIES = 1 /\ ~c.PUSH_TO_S3}
    /\ source = AnySource({FullPayload})
    /\ cyclesLeft = 0
    /\ now \in QueryClocks
    /\ store \in {SavedStore(obs) : obs \in SeqsUpTo(StoredObservations, MaxRows)}
    /\ SchedulerDefault
    /\ InitRest

NextQuery ==
    \/ GetWeatherByLocation
    \/ GetLatestWeather
    \/ GetStaleLocations
    \/ GetLatestObservations

SpecQuery == InitQuery /\ [][NextQuery]_vars

\* ------------------------------------------------------------ the scheduler
\* Scheduler time is counted in minutes: the loop of _run_scheduler sleeps
\* 60 seconds in every round.
MinutesPerHour == 60

Digits == <<"0", "1", "2", "3", "4", "5", "6", "7", "8", "9">>
IsDigit(c) == \E i \in 1..Len(Digits) : Digits[i] = c
DigitValue(c) == (CHOOSE i \in 1..Len(Digits) : Digits[i] = c) - 1

RECURSIVE DecimalValue(_)
DecimalValue(text) ==
    IF text = <<>> THEN 0
    ELSE 10 * DecimalValue(SubSeq(text, 1, Len(text) - 1)) + DigitValue(text[Len(text)])

\* int(text): the value of a decimal numeral; None stands for ValueError,
\* which any other text raises (a decimal point included)
IntOf(text) ==
    IF text # <<>> /\ \A i \in 1..Len(text) : IsDigit(text[i])
    THEN Some(DecimalValue(text))
    ELSE None

\* the texts SCHEDULE_INTERVAL_HOURS is set to: no time, one hour, half an hour
IntervalEnvs == {<<"0">>, <<"1">>, <<"0", ".", "5">>}

\* Config.SCHEDULE_INTERVAL_HOURS = int(os.getenv(...)), evaluated when the
\* module is imported
ConfigIntervalHours(text) == IntOf(text)

\* the period in minutes of the job start_scheduler registers:
\* every(int(h)).hours for h >= 1, every(int(h * 60)).minutes below
JobPeriod(hours) ==
    IF hours >= 1 THEN hours * MinutesPerHour ELSE hours * MinutesPerHour

\* schedule.every(...).do(...): next_run is one period after now
NewJob(id, hours) ==
    [id |-> id, period |-> JobPeriod(hours), remaining |-> JobPeriod(hours),
     age |-> 0, first_run |-> None]

\* a thread that has just been started: it is about to test `while self._running`
NewThread == [pc |-> "while", loc |-> 0, slept |-> FALSE, job |-> 0,
              outcome |-> "none", stopped_in_fetch |-> FALSE]

Alive(t) == threads[t].pc # "done"
InCycle(t) == threads[t].pc \in {"fetch", "rest"}

\* variant: start_scheduler without the test of _running
AlreadyRunning_NotTested(flag) == FALSE

\* start_scheduler: `if self._running: ... return`
AlreadyRunning(flag) == flag

\* variant: join() without a timeout
JoinBounded_NoTimeout(alive) == FALSE

\* stop_scheduler: join(timeout=5) gives up on a thread that is still alive
JoinBounded(alive) == alive

\* where a thread can stay longer than the timeout of join: in
\* time.sleep(60) and inside a cycle; the test of the loop and the
\* bookkeeping of run_pending take no such time
OutlastsJoin(pc_) == pc_ \in {"sleep", "fetch", "rest"}

\* variant: the flag is also tested between the locations of a cycle
ObservesStop_MidCycle(pc_) == pc_ \in {"while", "fetch"}

\* the only place where _running is read: the test of the while loop
ObservesStop(pc_) == pc_ = "while"

\* variant: a failed job ends the loop
AfterRunPending_DiesOnFailure(outcome) ==
    IF outcome \in {"False", "raised"} THEN "done" ELSE "sleep"

\* _run_etl_job catches every exception of run_pipeline, and _run_scheduler
\* every exception of run_pending: the loop goes on with time.sleep(60)
AfterRunPending(outcome) == "sleep"

\* variant: stop_scheduler leaves the jobs registered
schedule_clear_Noop(js) == js

\* schedule.clear(): no job stays registered
schedule_clear(js) == <<>>

\* what run_etl returns to run_pipeline
CycleResults == {"True", "False"}

schedRest == <<config, now, store, pc, cycleVars, result, source, cyclesLeft,
               directSaves, histVars, lastSave, queryVars>>

\* start_scheduler
StartScheduler ==
    /\ interval_hours # None
    /\ caller = "idle"
    /\ calls < MaxCalls
    /\ calls' = calls + 1
    /\ IF ~schedule_available
       THEN /\ lastCall' = [op |-> "start", outcome |-> "no_library"]
            /\ UNCHANGED <<running, jobs, threads, thread>>
       ELSE IF AlreadyRunning(running)
       THEN /\ lastCall' = [op |-> "start", outcome |-> "already_running"]
            /\ UNCHANGED <<running, jobs, threads, thread>>
       ELSE /\ running' = TRUE
            /\ jobs' = Append(jobs, NewJob(calls + 1, Val(interval_hours)))
            /\ threads' = Append(threads, NewThread)
            /\ thread' = Len(threads) + 1
            /\ lastCall' = [op |-> "start", outcome |-> "started"]
    /\ UNCHANGED <<schedule_available, interval_env, interval_hours, caller, schedRest>>

\* stop_scheduler up to the join: the flag is cleared, the jobs are removed
StopScheduler ==
    /\ interval_hours # None
    /\ caller = "idle"
    /\ calls < MaxCalls
    /\ calls' = calls + 1
    /\ IF ~schedule_available
       THEN /\ lastCall' = [op |-> "stop", outcome |-> "no_library"]
            /\ UNCHANGED <<running, jobs, threads, caller>>
       ELSE IF ~running
       THEN /\ lastCall' = [op |-> "stop", outcome |-> "not_running"]
            /\ UNCHANGED <<running, jobs, threads, caller>>
       ELSE /\ running' = FALSE
            /\ jobs' = schedule_clear(jobs)
            /\ threads' = [t \in 1..Len(threads) |->
                             [threads[t] EXCEPT !.stopped_in_fetch =
                                 @ \/ threads[t].pc = "fetch"]]
            /\ IF thread # 0 /\ Alive(thread)
               THEN /\ caller' = "joining"
                    /\ lastCall' = [op |-> "stop", outcome |-> "joining"]
               ELSE /\ caller' = "idle"
                    /\ lastCall' = [op |-> "stop", outcome |-> "stopped"]
    /\ UNCHANGED <<schedule_available, interval_env, interval_hours, thread, schedRest>>

\* stop_scheduler: the thread ended while join was waiting
JoinReturns ==
    /\ caller \in {"joining", "joining_late"}
    /\ ~Alive(thread)
    /\ caller' = "idle"
    /\ lastCall' = [op |-> "stop", outcome |-> "stopped"]
    /\ UNCHANGED <<schedule_available, interval_env, interval_hours, running, jobs,
                   threads, thread, calls, schedRest>>

\* stop_scheduler: the timeout of join passed, the thread is still alive
JoinExpires ==
    /\ caller \in {"joining", "joining_late"}
    /\ JoinBounded(Alive(thread))
    /\ OutlastsJoin(threads[thread].pc)
    /\ caller' = "idle"
    /\ lastCall' = [op |-> "stop", outcome |-> "stopped_thread_alive"]
    /\ UNCHANGED <<schedule_available, interval_env, interval_hours, running, jobs,
                   threads, thread, calls, schedRest>>

\* `while self._running` is true
LoopTest(t) ==
    /\ threads[t].pc = "while"
    /\ running
    /\ threads' = [threads EXCEPT ![t].pc = "run_pending"]
    /\ UNCHANGED <<schedule_available, interval_env, interval_hours, running, jobs,
                   thread, caller, calls, lastCall, schedRest>>

\* the thread sees that _running is false and ends
ThreadExit(t) ==
    /\ Alive(t)
    /\ ObservesStop(threads[t].pc)
    /\ ~running
    /\ threads' = [threads EXCEPT ![t].pc = "done", ![t].loc = 0]
    /\ UNCHANGED <<schedule_available, interval_env, interval_hours, running, jobs,
                   thread, caller, calls, lastCall, schedRest>>

DueJobs == {k \in 1..Len(jobs) : jobs[k].remaining = 0}

\* schedule.run_pending() finds no job due: time.sleep(60) follows
RunPendingIdle(t) ==
    /\ threads[t].pc = "run_pending"
    /\ DueJobs = {}
    /\ threads' = [threads EXCEPT ![t].pc = "sleep", ![t].slept = FALSE]
    /\ UNCHANGED <<schedule_available, interval_env, interval_hours, running, jobs,
                   thread, caller, calls, lastCall, schedRest>>

\* schedule.run_pending() finds the job due and calls _run_etl_job:
\* run_pipeline starts a cycle with the first location
RunPendingJob(t) ==
    /\ threads[t].pc = "run_pending"
    /\ \E k \in DueJobs :
        /\ threads' = [threads EXCEPT ![t].pc = "fetch", ![t].loc = 1,
                                      ![t].job = jobs[k].id,
                                      ![t].stopped_in_fetch = FALSE]
        /\ jobs' = [jobs EXCEPT ![k].first_run =
                        IF @ = None THEN Some(jobs[k].age) ELSE @]
    /\ UNCHANGED <<schedule_available, interval_env, interval_hours, running,
                   thread, caller, calls, lastCall, schedRest>>

\* the job is over: the library sets the next run of the job one period
\* later and the loop goes on
JobOver(t, outcome) ==
    /\ threads' = [threads EXCEPT ![t].pc = AfterRunPending(outcome), ![t].loc = 0,
                                  ![t].slept = FALSE, ![t].job = 0,
                                  ![t].outcome = outcome]
    /\ jobs' = [k \in 1..Len(jobs) |->
                   IF jobs[k].id = threads[t].job
                   THEN [jobs[k] EXCEPT !.remaining = jobs[k].period]
                   ELSE jobs[k]]

\* run_pipeline raises before its cycle starts: _run_etl_job logs the error
CycleRaises(t) ==
    /\ threads[t].pc = "fetch"
    /\ threads[t].loc = 1
    /\ JobOver(t, "raised")
    /\ UNCHANGED <<schedule_available, interval_env, interval_hours, running,
                   thread, caller, calls, lastCall, schedRest>>

\* the cycle finishes the fetch of its current location
CycleFetch(t) ==
    /\ threads[t].pc = "fetch"
    /\ threads' = IF threads[t].loc < NLoc
                  THEN [threads EXCEPT ![t].loc = @ + 1]
                  ELSE [threads EXCEPT ![t].pc = "rest"]
    /\ UNCHANGED <<schedule_available, interval_env, interval_hours, running, jobs,
                   thread, caller, calls, lastCall, schedRest>>

\* the cycle saves and archives, run_pipeline returns, _run_etl_job logs
CycleEnd(t) ==
    /\ threads[t].pc = "rest"
    /\ \E outcome \in CycleResults : JobOver(t, outcome)
    /\ UNCHANGED <<schedule_available, interval_env, interval_hours, running,
                   thread, caller, calls, lastCall, schedRest>>

\* time.sleep(60) is over
Wake(t) ==
    /\ threads[t].pc = "sleep"
    /\ threads[t].slept
    /\ threads' = [threads EXCEPT ![t].pc = "while", ![t].slept = FALSE]
    /\ UNCHANGED <<schedule_available, interval_env, interval_hours, running, jobs,
                   thread, caller, calls, lastCall, schedRest>>

\* a minute of the clock passes: every sleep of 60 seconds spans one minute
\* boundary, the join of 5 seconds at most one
MinutePasses ==
    /\ interval_hours # None
    /\ threads # <<>>
    /\ \A t \in 1..Len(threads) : ~(threads[t].pc = "sleep" /\ threads[t].slept)
    /\ caller # "joining_late"
    /\ caller' = IF caller = "joining" THEN "joining_late" ELSE caller
    /\ threads' = [t \in 1..Len(threads) |->
                     IF threads[t].pc = "sleep"
                     THEN [threads[t] EXCEPT !.slept = TRUE] ELSE threads[t]]
    /\ jobs' = [k \in 1..Len(jobs) |->
                   [jobs[k] EXCEPT !.remaining = IF @ > 0 THEN @ - 1 ELSE 0,
                                   !.age = IF @ < jobs[k].period THEN @ + 1 ELSE @]]
    /\ UNCHANGED <<schedule_available, interval_env, interval_hours, running,
                   thread, calls, lastCall, schedRest>>

\* the steps of one background thread (KeyboardInterrupt is delivered to the
\* main thread only, so the handler of _run_scheduler for it is never entered)
ThreadStep(t) ==
    \/ LoopTest(t)
    \/ ThreadExit(t)
    \/ RunPendingIdle(t)
    \/ RunPendingJob(t)
    \/ CycleRaises(t)
    \/ CycleFetch(t)
    \/ CycleEnd(t)
    \/ Wake(t)

\* the configuration the scheduler runs with
SchedulerConfigs ==
    {c \in ScenarioConfigs : ~c.PUSH_TO_S3 /\ c.S3_BUCKET = Unset}

\* Config is loaded and WeatherScheduler() is constructed
InitScheduler ==
    /\ config \in SchedulerConfigs
    /\ source = ScenarioSource
    /\ cyclesLeft = 0
    /\ now = 0
    /\ store = <<>>
    /\ schedule_available \in BOOLEAN
    /\ interval_env \in IntervalEnvs
    /\ interval_hours = ConfigIntervalHours(interval_env)
    /\ running = FALSE
    /\ jobs = <<>>
    /\ threads = <<>>
    /\ thread = 0
    /\ caller = "idle"
    /\ calls = 0
    /\ lastCall = NoSchedulerCall
    /\ InitRest

NextScheduler ==
    \/ StartScheduler
    \/ StopScheduler
    \/ JoinReturns
    \/ JoinExpires
    \/ MinutePasses
    \/ \E t \in 1..Len(threads) : ThreadStep(t)

SpecScheduler == InitScheduler /\ [][NextScheduler]_vars

\* the threads and the clock keep going, and a join ends
SchedulerFairness ==
    /\ WF_vars(MinutePasses)
    /\ WF_vars(JoinReturns)
    /\ WF_vars(JoinExpires)
    /\ \A t \in 1..MaxCalls : WF_vars(t <= Len(threads) /\ ThreadStep(t))

SpecSchedulerFair == SpecScheduler /\ SchedulerFairness

TypeOK ==
    /\ config \in Configs \cup ClientConfigs
    /\ now \in 0..MaxTime \cup QueryClocks
    /\ pc \in {"idle", "process", "fetch", "save", "push_init", "push", "finish"}
    /\ result \in {"none", "running", "True", "False", "raised"}
    /\ cyclesLeft \in 0..MaxCycles
    /\ Len(waits) <= MaxRetriesBound /\ Len(outcomes) <= MaxRetriesBound
    /\ saved_count \in 0..MaxLocations
    /\ readsLeft \in 0..MaxReads
    /\ queryCall.op \in {"none", "recent", "by_location", "latest", "stale"}
    /\ running \in BOOLEAN
    /\ caller \in {"idle", "joining", "joining_late"}
    /\ calls \in 0..MaxCalls
    /\ thread \in 0..Len(threads)
    /\ \A t \in 1..Len(threads) :
          /\ threads[t].pc \in {"while", "run_pending", "fetch", "rest", "sleep", "done"}
          /\ threads[t].loc \in 0..NLoc
    /\ \A k \in 1..Len(jobs) : jobs[k].remaining \in 0..jobs[k].period

\* ================================================================ properties
\* fetch_and_transform_location has returned for location lastLoc
CallReturned == lastLoc # 0 /\ returned[lastLoc] \in {"none", "observation"}

\* _process_locations has returned
FetchPhaseDone ==
    \/ pc \in {"save", "push_init", "push", "finish"}
    \/ pc = "idle" /\ result \in {"True", "False"}

\* _save_observations has returned
SavePhaseDone ==
    \/ pc \in {"push_init", "push", "finish"}
    \/ pc = "idle" /\ result \in {"True", "False"}

\* run_etl has returned
CycleOver == pc = "idle" /\ result \in {"True", "False"}

AllAre(seq, v) == \A k \in 1..Len(seq) : seq[k] = v

\* C1: when every fetch of a location raised the retryable source failure,
\* the call made exactly MAX_RETRIES fetches, slept RETRY_DELAY_SECONDS
\* between consecutive fetches (MAX_RETRIES - 1 sleeps, none after the last
\* fetch) and returned no observation.
C1_RetryUntilExhausted ==
    (CallReturned /\ AllAre(outcomes, "unavailable")) =>
        /\ attempts[lastLoc] = config.MAX_RETRIES
        /\ Len(outcomes) = config.MAX_RETRIES
        /\ Len(waits) = (IF config.MAX_RETRIES >= 1 THEN config.MAX_RETRIES - 1 ELSE 0)
        /\ AllAre(waits, config.RETRY_DELAY_SECONDS)
        /\ returned[lastLoc] = "none"

C1_Witness ==
    /\ CallReturned
    /\ config.MAX_RETRIES = 2
    /\ outcomes = <<"unavailable", "unavailable">>
    /\ waits = <<5>>
    /\ returned[lastLoc] = "none"

\* C2 (as claimed): when the first fetch of a location fails with an
\* undecodable payload, exactly one fetch is made, nothing is slept and no
\* observation is returned.
C2_MalformedNotRetried ==
    (lastLoc # 0 /\ outcomes # <<>> /\ outcomes[1] = "malformed") =>
        /\ attempts[lastLoc] = 1
        /\ waits = <<>>
        /\ returned[lastLoc] = "none"

\* a location is blank when nothing is left of it after strip()
IsBlank(i) == Strip(config.LOCATIONS[i]) = <<>>

\* the location indexes whose observation was handed to _save_observations
KeptLocations == {obsLoc[k] : k \in 1..Len(obsLoc)}

\* C3 (as claimed): once the fetch phase is over every configured location
\* got at least one fetch attempt, and the locations that succeeded are
\* exactly those whose observations reach the persistence phase.
C3_EveryLocationAttempted ==
    FetchPhaseDone =>
        \A i \in 1..NLoc :
            /\ attempts[i] >= 1
            /\ returned[i] = "observation" <=> i \in KeptLocations

\* C3 (amended): every configured location is processed whatever happened to
\* the others; a location that is not blank gets at least one fetch attempt
\* when MAX_RETRIES >= 1; a blank location, and every location when
\* MAX_RETRIES <= 0, gets none; a location succeeded exactly if its last
\* fetch was answered, and the locations that succeeded are exactly those
\* whose observations are handed, in order, to the persistence phase.
C3_EveryLocationProcessed ==
    /\ FetchPhaseDone =>
          /\ \A i \in 1..NLoc :
                /\ returned[i] # "pending"
                /\ (~IsBlank(i) /\ config.MAX_RETRIES >= 1) => attempts[i] >= 1
                /\ (IsBlank(i) \/ config.MAX_RETRIES <= 0) => attempts[i] = 0
                /\ returned[i] = "observation" <=> i \in KeptLocations
          /\ Len(observations) = Len(obsLoc)
          /\ \A k \in 1..Len(obsLoc) :
                /\ observations[k].location = Some(Strip(config.LOCATIONS[obsLoc[k]]))
                /\ k > 1 => obsLoc[k - 1] < obsLoc[k]
    /\ CallReturned =>
          (returned[lastLoc] = "observation" <=>
              (outcomes # <<>> /\ outcomes[Len(outcomes)] = "ok"))
    /\ SavePhaseDone =>
          /\ Len(saveLog) = Len(observations)
          /\ \A k \in 1..Len(saveLog) : saveLog[k].obs = k

C3_Witness ==
    /\ SavePhaseDone
    /\ NLoc = 2
    /\ returned = <<"none", "observation">>
    /\ attempts = <<2, 1>>
    /\ Len(saveLog) = 1

SavedIn(log) == {k \in 1..Len(log) : log[k].ret = "True"}

\* C4: in the end-to-end scenario (the store accepting the save) the cycle
\* ends with one succeeded and one failed location, exactly one new row, for
\* Colombo, and exactly two fetch attempts for Kandy.
C4_Scenario ==
    (CycleOver /\ \A k \in 1..Len(saveLog) : saveLog[k].ret = "True") =>
        /\ result = "True"
        /\ returned = <<"observation", "none">>
        /\ Len(observations) = 1
        /\ Cardinality({i \in 1..NLoc : returned[i] = "none"}) = 1
        /\ Len(store) = Len(storeAtStart) + 1
        /\ store[Len(store)].location = Some(Colombo)
        /\ attempts = <<1, 2>>

C4_Witness ==
    /\ CycleOver
    /\ Len(store) = 1
    /\ store[1].location = Some(Colombo)
    /\ attempts = <<1, 2>>

\* C5: once the persistence phase is over every fetched observation got
\* exactly one save attempt, whatever the earlier saves returned or raised;
\* saved_count is the number of saves that returned True, is at most the
\* number of fetched observations and is the number of rows added.
C5_SaveFailuresContained ==
    SavePhaseDone =>
        /\ Len(saveLog) = Len(observations)
        /\ \A k \in 1..Len(saveLog) : saveLog[k].obs = k
        /\ saved_count = Cardinality(SavedIn(saveLog))
        /\ saved_count <= Len(observations)
        /\ Len(store) = Len(storeAtStart) + saved_count
        /\ SubSeq(store, 1, Len(storeAtStart)) = storeAtStart

C5_Witness ==
    /\ SavePhaseDone
    /\ Len(saveLog) = 2
    /\ saveLog[1].ret = "raise"
    /\ saveLog[2].ret = "True"
    /\ saved_count = 1

\* C6: run_etl never reports failure because of failed locations, failed
\* saves or failed archival; the only failure is the constructor raising
\* before the cycle starts.
C6_CycleAlwaysSucceeds ==
    /\ result # "False"
    /\ CycleOver => result = "True"
    /\ result = "raised" => (lastLoc = 0 /\ saveLog = <<>> /\ store = storeAtStart)

C6_Witness ==
    /\ CycleOver
    /\ result = "True"
    /\ returned = <<"none", "observation">>
    /\ saveLog[1].ret = "raise"
    /\ pushLog # <<>> /\ pushLog[1].outcome = "fails"

\* the store the saves of this cycle produce, from the save returns alone
RECURSIVE RowsAfter(_, _, _, _)
RowsAfter(st, obs, log, k) ==
    IF k > Len(log) THEN st
    ELSE RowsAfter(IF log[k].ret = "True" THEN InsertRow(st, obs[log[k].obs], 0) ELSE st,
                   obs, log, k + 1)

\* a step taken inside _push_to_s3
ArchivalStepIsNeutral ==
    pc \in {"push_init", "push"} =>
        /\ store' = store
        /\ saved_count' = saved_count
        /\ saveLog' = saveLog
        /\ result' # "False"

RowIds(st) == {st[i].id : i \in 1..Len(st)}

\* a step keeps every row and adds at most one
StoreStepAppends ==
    /\ Len(store') \in {Len(store), Len(store) + 1}
    /\ SubSeq(store', 1, Len(store)) = store

\* C9: no step removes or changes a row; a step adds at most one row; a
\* save that returned True added exactly one row, with a fresh id, after
\* the rows that were there.
C9_AppendOnly ==
    /\ [][StoreStepAppends]_vars
    /\ [](lastSave.ret = "True" =>
            /\ Len(lastSave.post) = Len(lastSave.pre) + 1
            /\ SubSeq(lastSave.post, 1, Len(lastSave.pre)) = lastSave.pre
            /\ lastSave.post[Len(lastSave.post)].id \notin RowIds(lastSave.pre))
    /\ [](Cardinality(RowIds(store)) = Len(store))

C9_Witness ==
    \E i, j \in 1..Len(store) :
        /\ i < j
        /\ store[i].location = store[j].location
        /\ store[i].fetched_at_utc # store[j].fetched_at_utc
        /\ lastSave.ret = "True"
        /\ lastSave.post = store

\* C10 (as claimed): a save that did not succeed left the store as it was
\* and returned False.
C10_FailedSaveReturnsFalse ==
    lastSave.ret \notin {"none", "True"} =>
        /\ lastSave.post = lastSave.pre
        /\ lastSave.ret = "False"

\* ------------------------------------------------------ reading the store
FetchedAt(row) == Val(row.fetched_at_utc)

\* the rows of the store whose location the lookup for `term` selects
Matching(term) == {i \in 1..Len(store) : LocationLike(term, Val(store[i].location))}
MatchingLocations(term) == {Val(store[i].location) : i \in Matching(term)}

\* the rows of the store of one location
RowsOf(location) == {i \in 1..Len(store) : Val(store[i].location) = location}

InStore(row) == \E i \in 1..Len(store) : store[i] = row

\* a returned row is the newest row of its own location
NewestOfItsLocation(row) ==
    \A i \in RowsOf(Val(row.location)) : FetchedAt(store[i]) <= FetchedAt(row)

NewestSelected(rows, term) ==
    /\ Len(rows) = (IF Matching(term) = {} THEN 0 ELSE 1)
    /\ \A k \in 1..Len(rows) :
          /\ InStore(rows[k])
          /\ LocationLike(term, Val(rows[k].location))
          /\ \A i \in Matching(term) : FetchedAt(store[i]) <= FetchedAt(rows[k])
          /\ NewestOfItsLocation(rows[k])

ThreeColomboRows ==
    /\ Cardinality(RowsOf(Colombo)) = 3
    /\ {FetchedAt(store[i]) : i \in RowsOf(Colombo)} = {0, Hour, 2 * Hour}
    /\ MatchingLocations(TermColombo) = {Colombo}

\* C12: with three rows of Colombo fetched at T, T + 1h and T + 2h, saved
\* in any order, and no other location selected, the lookup for the term
\* Colombo returns exactly the row fetched at T + 2h.
C12_LatestOfThree ==
    (queryCall.op = "by_location" /\ queryCall.location = TermColombo /\ ThreeColomboRows) =>
        /\ Len(queryResult) = 1
        /\ InStore(queryResult[1])
        /\ queryResult[1].location = Some(Colombo)
        /\ FetchedAt(queryResult[1]) = 2 * Hour

C12_Witness ==
    /\ queryCall.op = "by_location"
    /\ queryCall.location = TermColombo
    /\ ThreeColomboRows
    /\ FetchedAt(store[1]) = 2 * Hour
    /\ FetchedAt(store[3]) = Hour
    /\ Len(queryResult) = 1
    /\ queryResult[1].id = 1

\* the threshold of get_stale_locations(90) on the clock
StaleBefore == now - StaleMinutes * SecondsPerMinute * TicksPerSecond

\* C13 (as claimed): get_stale_locations(90) returns a location exactly if
\* it has a row and the newest fetch time of its rows is strictly before
\* now - 90 minutes, and reports that newest fetch time.
C13_StaleIffStrictlyOlder ==
    queryCall.op = "stale" =>
        /\ \A l \in {Colombo, ColomboUS, Kandy} :
              (\E r \in staleResult : r.location = l) <=>
                  (RowsOf(l) # {} /\ MaxFetchedAt(store, l) < StaleBefore)
        /\ \A r \in staleResult :
              /\ RowsOf(r.location) # {}
              /\ r.latest_fetch = MaxFetchedAt(store, r.location)

\* C14: get_latest_observations(limit), limit >= 0, returns
\* min(limit, number of rows) different rows of the store, newest fetch
\* first, whatever their locations, and no row left out was fetched later
\* than a returned row.
C14_RecentRows ==
    queryCall.op = "recent" =>
        /\ Len(queryResult) = Min(queryCall.limit, Len(store))
        /\ \A k \in 1..Len(queryResult) : InStore(queryResult[k])
        /\ \A j, k \in 1..Len(queryResult) :
              j < k => /\ queryResult[j].id # queryResult[k].id
                       /\ FetchedAt(queryResult[j]) >= FetchedAt(queryResult[k])
        /\ \A i \in 1..Len(store), k \in 1..Len(queryResult) :
              (\A j \in 1..Len(queryResult) : queryResult[j].id # store[i].id) =>
                  FetchedAt(store[i]) <= FetchedAt(queryResult[k])

C14_Witness ==
    /\ queryCall.op = "recent"
    /\ queryCall.limit = 2
    /\ Len(store) = 3
    /\ Len(queryResult) = 2
    /\ queryResult[1].location # queryResult[2].location
    /\ FetchedAt(queryResult[1]) > FetchedAt(queryResult[2])
    /\ queryResult[1].id = 3
    /\ queryResult[2].id = 1

\* --------------------------------------------------------------- scheduler
AliveThreads == {t \in 1..Len(threads) : Alive(t)}
ThreadsInCycle == {t \in 1..Len(threads) : InCycle(t)}

\* C15 (as claimed): at every moment at most one background loop of the
\* scheduler is alive and at most one cycle triggered by it is executing.
C15_SingleLoop ==
    /\ Cardinality(AliveThreads) <= 1
    /\ Cardinality(ThreadsInCycle) <= 1

\* a start_scheduler call made while the scheduler is running changes nothing
StartWhileRunningIsNoop ==
    (calls' # calls /\ lastCall'.op = "start" /\ running) =>
        /\ UNCHANGED <<running, jobs, threads, thread>>
        /\ lastCall'.outcome = "already_running"

\* C16: start_scheduler called while Running registers no job, starts no
\* thread and leaves the state Running; whenever the scheduler is Running,
\* however many start calls were made, exactly one job is registered.
C16_StartIdempotent ==
    /\ [][StartWhileRunningIsNoop]_vars
    /\ [](running => (Len(jobs) = 1 /\ thread # 0))
    /\ [](Len(jobs) <= 1)

C16_Witness ==
    /\ calls >= 2
    /\ lastCall = [op |-> "start", outcome |-> "already_running"]
    /\ running
    /\ Len(jobs) = 1
    /\ Len(threads) = 1

Joining == caller \in {"joining", "joining_late"}

\* C17: a stop_scheduler call made while Running leaves the flag cleared and
\* no job registered, and it returns: when the thread ends, and also while
\* the thread is still alive, asleep or inside a cycle; in both cases it
\* returns normally and the state is Stopped.
C17_StopReturns ==
    /\ [](Joining => (~running /\ jobs = <<>>))
    /\ []((Joining /\ OutlastsJoin(threads[thread].pc)) => ENABLED JoinExpires)
    /\ []((Joining /\ ~Alive(thread)) => ENABLED JoinReturns)
    /\ (Joining ~> caller = "idle")
    /\ []((lastCall.op = "stop" /\ lastCall.outcome \in {"stopped", "stopped_thread_alive"}) =>
            (caller = "idle" /\ ~running /\ jobs = <<>>))

C17_Witness ==
    /\ lastCall = [op |-> "stop", outcome |-> "stopped_thread_alive"]
    /\ caller = "idle"
    /\ ~running
    /\ threads[thread].pc = "fetch"

\* the end of a job that failed leaves its thread in the loop, with the
\* next run of the job, if it is still registered, one period later
FailedJobKeepsLoop ==
    \A t \in 1..Len(threads) :
        (InCycle(t) /\ threads'[t].pc \notin {"fetch", "rest"}
                    /\ threads'[t].outcome \in {"False", "raised"}) =>
            /\ threads'[t].pc = "sleep"
            /\ \A k \in 1..Len(jobs') :
                  jobs'[k].id = threads[t].job => jobs'[k].remaining = jobs'[k].period

\* a thread sleeps after a job that failed
FailedAndAsleep ==
    \E t \in 1..Len(threads) :
        /\ threads[t].pc = "sleep"
        /\ threads[t].outcome \in {"False", "raised"}

\* C18: a cycle that returns failure or raises does not end the loop: its
\* thread goes on to sleep and the job stays scheduled; a thread ends only
\* by seeing the flag cleared; and unless the scheduler is stopped, a
\* cycle is triggered again after the failed one.
C18_FailureKeepsLoop ==
    /\ [][FailedJobKeepsLoop]_vars
    /\ [][\A t \in 1..Len(threads) : (Alive(t) /\ threads'[t].pc = "done") => ~running]_vars
    /\ (FailedAndAsleep ~> (~running \/ ThreadsInCycle # {}))

C18_Witness ==
    \E t \in 1..Len(threads) :
        /\ threads[t].pc = "fetch"
        /\ threads[t].outcome = "raised"
        /\ running
        /\ Len(threads) = 1

\* the minutes the text of SCHEDULE_INTERVAL_HOURS stands for
ConfiguredMinutes ==
    IF interval_env = <<"0", ".", "5">> THEN 30
    ELSE DecimalValue(interval_env) * MinutesPerHour

\* C19 (as claimed): the scheduler runs with the configured interval, an
\* interval below one hour as its number of minutes; the first cycle starts
\* no earlier than one interval after start_scheduler; while the scheduler
\* stays Running, cycles are triggered again and again.
C19_OneCyclePerInterval ==
    /\ [](interval_hours # None)
    /\ [](\A k \in 1..Len(jobs) :
            /\ jobs[k].period = ConfiguredMinutes
            /\ jobs[k].first_run # None => Val(jobs[k].first_run) >= ConfiguredMinutes)
    /\ (<>[]running => []<>(ThreadsInCycle # {}))

\* a thread ends only at the test of the loop, a cycle is never left
\* before its end, and the fetch of a location is followed by the next
\* location or the rest of the cycle
StopOnlyBetweenRounds ==
    \A t \in 1..Len(threads) :
        /\ (Alive(t) /\ threads'[t].pc = "done") =>
              (threads[t].pc = "while" /\ ~running)
        /\ InCycle(t) => threads'[t].pc # "done"
        /\ (threads[t].pc = "fetch" /\ threads'[t].pc = "fetch") =>
              threads'[t].loc \in {threads[t].loc, threads[t].loc + 1}
        /\ (threads[t].pc = "fetch" /\ threads'[t].pc = "sleep") =>
              threads'[t].outcome = "raised"

\* C20: the flag is read at the test of the loop only; a cycle in flight
\* when stop_scheduler clears the flag goes on: the fetch of its current
\* location and the rest of the cycle finish, and only then does the thread
\* see the flag.
C20_CooperativeStop ==
    /\ [][StopOnlyBetweenRounds]_vars
    /\ [](\A t \in 1..Len(threads) :
            (threads[t].stopped_in_fetch /\ ~Alive(t)) => threads[t].outcome # "none")

C20_Witness ==
    \E t \in 1..Len(threads) :
        /\ threads[t].stopped_in_fetch
        /\ threads[t].pc = "done"
        /\ threads[t].outcome = "True"
        /\ ~running

\* ------------------------------------------------- validation and the bound
\* C21: an attempt whose fetch and transformation succeeded and whose
\* observation the validation rejected is the last attempt of the call: no
\* fetch and no wait follows, the call returns no observation and the
\* location hands nothing to the persistence phase; when it is the first
\* attempt, the call made exactly one fetch and waited never.
C21_RejectedNotRetried ==
    lastLoc # 0 =>
        \A k \in 1..Len(outcomes) :
            outcomes[k] = "invalid" =>
                /\ k = Len(outcomes)
                /\ attempts[lastLoc] = k
                /\ Len(waits) = k - 1
                /\ returned[lastLoc] = "none"
                /\ lastLoc \notin KeptLocations
                /\ k = 1 => (attempts[lastLoc] = 1 /\ waits = <<>>)

C21_Witness ==
    /\ CycleOver
    /\ config.MAX_RETRIES = 2
    /\ lastLoc # 0
    /\ outcomes = <<"invalid">>
    /\ attempts[lastLoc] = 1
    /\ waits = <<>>
    /\ returned[lastLoc] = "none"
    /\ store = <<>>

\* C30: with MAX_RETRIES zero or negative no fetch is attempted and nothing
\* is waited for, every location that is not blank gets no observation, no
\* observation reaches the persistence phase, the store stays as it was,
\* and the cycle that ran returns success.
C30_NoRetriesNoFetch ==
    config.MAX_RETRIES <= 0 =>
        /\ \A i \in 1..NLoc : attempts[i] = 0
        /\ waits = <<>>
        /\ outcomes = <<>>
        /\ observations = <<>>
        /\ saveLog = <<>>
        /\ store = storeAtStart
        /\ FetchPhaseDone =>
              \A i \in 1..NLoc : returned[i] = (IF IsBlank(i) THEN "skipped" ELSE "none")
        /\ result # "False"
        /\ CycleOver => result = "True"

C30_Witness ==
    /\ CycleOver
    /\ config.MAX_RETRIES = -1
    /\ config.LOCATIONS = <<Colombo, Kandy>>
    /\ returned = <<"none", "none">>
    /\ attempts = <<0, 0>>
    /\ result = "True"
    /\ store = <<>>

\* ------------------------------------------------------- the transformation
\* the payload the provider answers with, when it has only one
ThePayload == CHOOSE raw_data \in source[Colombo].payloads : TRUE

\* the value the payload has for a key of a nested object: none when the
\* object or the key is missing or the value is null
Field(v, key) == IF v.kind = "object" /\ key \in DOMAIN v.f THEN v.f[key] ELSE None

\* the first element of the weather list, if there is one
WeatherItem(v) == IF v.kind = "list" /\ v.items # <<>> THEN v.items[1] ELSE Missing

\* each nested object is missing or present (weather: missing, an empty
\* list or a list with an element)
NestedMissingOrPresent(raw_data) ==
    /\ raw_data.main.kind \in {"missing", "object"}
    /\ raw_data.wind.kind \in {"missing", "object"}
    /\ raw_data.coord.kind \in {"missing", "object"}
    /\ raw_data.weather.kind \in {"missing", "list"}

\* a fetch was answered and fetch_and_transform_location has returned
Answered == CallReturned /\ outcomes # <<>>

LastObservation == observations[Len(observations)]

\* C22: for a payload whose nested objects are each missing or present
\* (weather possibly an empty list) the transformation does not raise: the
\* call returns an observation whose fields taken from a missing object
\* are null and whose fields taken from a present object have the
\* payload's value.
C22_MissingObjectsGiveNulls ==
    (Answered /\ NestedMissingOrPresent(ThePayload)) =>
        /\ outcomes = <<"ok">>
        /\ returned[lastLoc] = "observation"
        /\ LET o == LastObservation
               raw_data == ThePayload
           IN /\ o.temp_k = Field(raw_data.main, "temp")
              /\ o.humidity = Field(raw_data.main, "humidity")
              /\ o.pressure = Field(raw_data.main, "pressure")
              /\ o.wind_speed = Field(raw_data.wind, "speed")
              /\ o.wind_deg = Field(raw_data.wind, "deg")
              /\ o.lat = Field(raw_data.coord, "lat")
              /\ o.lon = Field(raw_data.coord, "lon")
              /\ o.weather_main = Field(WeatherItem(raw_data.weather), "main")
              /\ o.weather_description = Field(WeatherItem(raw_data.weather), "description")
              /\ raw_data.main.kind = "missing" =>
                    /\ o.temp_c = None /\ o.temp_k = None /\ o.feels_like_c = None
                    /\ o.humidity = None /\ o.pressure = None
              /\ raw_data.wind.kind = "missing" =>
                    (o.wind_speed = None /\ o.wind_deg = None)
              /\ raw_data.coord.kind = "missing" => (o.lat = None /\ o.lon = None)
              /\ WeatherItem(raw_data.weather) = Missing =>
                    (o.weather_main = None /\ o.weather_description = None)

C22_Witness ==
    /\ Answered
    /\ ThePayload.main = Missing
    /\ ThePayload.wind = FullWind
    /\ ThePayload.coord = Missing
    /\ ThePayload.weather = List(<<>>)
    /\ returned[lastLoc] = "observation"
    /\ LastObservation.temp_c = None
    /\ LastObservation.wind_deg = Some(180)
    /\ LastObservation.weather_main = None

\* C23: whenever the transformation produces an observation, temp_k is
\* main.temp and temp_c is main.temp - 273.15 when main.temp is present, a
\* value of 0 included, and both are null when it is absent; feels_like_c
\* is main.feels_like - 273.15 when present and null when absent.
C23_CelsiusFromKelvin ==
    (Answered /\ returned[lastLoc] = "observation") =>
        LET o == LastObservation
            temp == Field(ThePayload.main, "temp")
            feels_like == Field(ThePayload.main, "feels_like")
        IN /\ o.temp_k = temp
           /\ temp # None => o.temp_c = Some(Val(temp) - KelvinOffset)
           /\ temp = None => (o.temp_c = None /\ o.temp_k = None)
           /\ feels_like # None => o.feels_like_c = Some(Val(feels_like) - KelvinOffset)
           /\ feels_like = None => o.feels_like_c = None

C23_Witness ==
    /\ Answered
    /\ returned[lastLoc] = "observation"
    /\ Field(ThePayload.main, "temp") = Some(0)
    /\ Field(ThePayload.main, "feels_like") = None
    /\ LastObservation.temp_k = Some(0)
    /\ LastObservation.temp_c = Some(0 - KelvinOffset)
    /\ LastObservation.feels_like_c = None

\* ------------------------------------------------------ the required columns
RequiredPresent(r) ==
    r.location # None /\ r.timestamp_utc # None /\ r.fetched_at_utc # None

\* C24 (as claimed): every row of the store has a location, an observed
\* time and a fetch time, and an observation lacking one of the three is
\* never persisted.
C24_RequiredAlwaysGiven ==
    /\ \A i \in 1..Len(store) : RequiredPresent(store[i])
    /\ lastSave.ret = "True" => RequiredPresent(Val(lastSave.obs))

\* C24 (amended): every row of the store has a location, an observed time
\* and a fetch time; an observation without location or observed time is
\* never persisted; an observation without fetch time is persisted with
\* the time of the insert as its fetch time; the three columns of a
\* persisted row are otherwise those of its observation.
C24_RequiredColumnsPresent ==
    /\ \A i \in 1..Len(store) : RequiredPresent(store[i])
    /\ lastSave.ret = "True" =>
          LET o == Val(lastSave.obs)
              row == lastSave.post[Len(lastSave.post)]
          IN /\ o.location # None /\ o.timestamp_utc # None
             /\ row.location = o.location
             /\ row.timestamp_utc = o.timestamp_utc
             /\ o.fetched_at_utc # None => row.fetched_at_utc = o.fetched_at_utc
             /\ row.fetched_at_utc # None
    /\ (lastSave.ret # "none"
          /\ (Val(lastSave.obs).location = None \/ Val(lastSave.obs).timestamp_utc = None)) =>
          (lastSave.ret # "True" /\ lastSave.post = lastSave.pre)

C24_Witness ==
    /\ lastSave.ret = "True"
    /\ Val(lastSave.obs).fetched_at_utc = None
    /\ lastSave.post = store
    /\ store[Len(store)].fetched_at_utc = Some(now)
    /\ store[Len(store)].location = Some(Colombo)

\* --------------------------------------------------- matching by the prefix
\* s starts with term, character by character
StartsWith(s, term) == Len(term) <= Len(s) /\ SubSeq(s, 1, Len(term)) = term

\* C25 (as claimed): the lookup by term selects a stored location exactly
\* if the location starts with the term, compared case-sensitively and
\* character by character: a returned row starts with the term, and a row
\* is returned exactly if some stored location starts with the term.
C25_ExactPrefixMatch ==
    queryCall.op = "by_location" =>
        /\ \A k \in 1..Len(queryResult) :
              StartsWith(Val(queryResult[k].location), queryCall.location)
        /\ queryResult # <<>> <=>
              \E i \in 1..Len(store) :
                  StartsWith(Val(store[i].location), queryCall.location)

\* ------------------------------------------------- the course of one cycle
\* C26: when the attempts before attempt k failed with the retryable source
\* failure and attempt k was answered, attempt k is the last fetch of the
\* call: exactly k fetches were made, k <= MAX_RETRIES, exactly k - 1
\* waits of RETRY_DELAY_SECONDS were made, and the call returned the
\* observation, which is handed to the persistence phase for its location.
C26_StopsAtFirstSuccess ==
    lastLoc # 0 =>
        \A k \in 1..Len(outcomes) :
            (outcomes[k] = "ok" /\ \A j \in 1..(k - 1) : outcomes[j] = "unavailable") =>
                /\ k = Len(outcomes)
                /\ k <= config.MAX_RETRIES
                /\ attempts[lastLoc] = k
                /\ Len(waits) = k - 1
                /\ AllAre(waits, config.RETRY_DELAY_SECONDS)
                /\ returned[lastLoc] = "observation"
                /\ obsLoc # <<>> /\ obsLoc[Len(obsLoc)] = lastLoc
                /\ observations[Len(observations)].location
                      = Some(Strip(config.LOCATIONS[lastLoc]))

C26_Witness ==
    /\ CallReturned
    /\ config.MAX_RETRIES = 2
    /\ config.RETRY_DELAY_SECONDS = 5
    /\ outcomes = <<"unavailable", "ok">>
    /\ waits = <<5>>
    /\ attempts[lastLoc] = 2
    /\ returned[lastLoc] = "observation"

RECURSIVE SumOf(_)
SumOf(seq) == IF seq = <<>> THEN 0 ELSE Head(seq) + SumOf(Tail(seq))

\* C27: a cycle makes at most len(LOCATIONS) * MAX_RETRIES fetch attempts
\* and at most len(LOCATIONS) save attempts, and a cycle that has started
\* finishes: run_etl returns.
C27_CycleTerminates ==
    /\ [](/\ SumOf(attempts) <= NLoc * config.MAX_RETRIES
          /\ \A i \in 1..NLoc : attempts[i] <= config.MAX_RETRIES
          /\ Len(saveLog) <= NLoc)
    /\ (result = "running" ~> CycleOver)

C27_Witness ==
    /\ CycleOver
    /\ config.MAX_RETRIES = 2
    /\ NLoc = 2
    /\ attempts = <<2, 2>>
    /\ returned = <<"none", "observation">>
    /\ Len(saveLog) = 1

\* a step that makes a fetch leaves no save behind it, and a step that
\* makes a save leaves no put behind it
PhaseStepInOrder ==
    /\ attempts' # attempts => saveLog' = <<>>
    /\ saveLog' # saveLog => pushLog' = <<>>
    /\ (saveLog' # saveLog /\ saveLog' # <<>>) =>
          (pc = "save" /\ attempts' = attempts /\ observations' = observations)
    /\ (pushLog' # pushLog /\ pushLog' # <<>>) =>
          (pc = "push" /\ saveLog' = saveLog /\ attempts' = attempts)

\* C28: within a cycle no save is made before fetch_and_transform_location
\* has returned for every configured location, no put is made before every
\* observation got its save attempt, and the observations are saved in the
\* order of their locations in LOCATIONS.
C28_PhasesOrdered ==
    /\ [][PhaseStepInOrder]_vars
    /\ [](saveLog # <<>> => \A i \in 1..NLoc : returned[i] \in {"none", "observation", "skipped"})
    /\ [](pushLog # <<>> => Len(saveLog) = Len(observations))
    /\ [](\A k \in 1..Len(saveLog) :
             /\ saveLog[k].obs = k
             /\ observations[k].location = Some(Strip(config.LOCATIONS[obsLoc[k]]))
             /\ \A j \in 1..(k - 1) : obsLoc[saveLog[j].obs] < obsLoc[saveLog[k].obs])

C28_Witness ==
    /\ CycleOver
    /\ config.LOCATIONS = <<Kandy, Colombo>>
    /\ Len(saveLog) = 2
    /\ Len(pushLog) = 2
    /\ obsLoc = <<1, 2>>
    /\ observations[1].location = Some(Kandy)

\* ------------------------------------------------------------ after the stop
\* stop_scheduler has returned and start_scheduler was not called since
StopReturned == lastCall.op = "stop" /\ caller = "idle"

\* a step in which a thread starts a cycle
CycleStarts ==
    \E t \in 1..Len(threads) : ~InCycle(t) /\ threads'[t].pc \in {"fetch", "rest"}

\* C29: once stop_scheduler has returned, no thread starts a cycle until
\* start_scheduler is called again, the flag stays cleared and no job is
\* registered; and unless start_scheduler is called again, every
\* scheduling loop ends.
C29_StoppedStaysStopped ==
    /\ [][StopReturned => ~CycleStarts]_vars
    /\ [](StopReturned => (~running /\ jobs = <<>>))
    /\ (StopReturned ~> (AliveThreads = {} \/ ~StopReturned))

C29_Witness ==
    /\ StopReturned
    /\ lastCall.outcome = "stopped_thread_alive"
    /\ threads # <<>>
    /\ AliveThreads = {}
    /\ threads[1].stopped_in_fetch
    /\ threads[1].outcome = "True"

====
